---- MODULE Spec2Model ----
(***************************************************************************)
(* Connection / stream lifecycle core of open-neon-js (createDevice of the *)
(* Node package; the browser package has the same control flow).           *)
(*                                                                         *)
(* One step of the model is one synchronous run of JavaScript: a call made *)
(* by the application, or a callback run by the event loop (a settled      *)
(* fetch, a WebSocket event, an expired timer).  Every await of the source *)
(* ends a step.  Unless a specification says otherwise the application has *)
(* a listener registered for every lifecycle event.                        *)
(*                                                                         *)
(* The pull facade (createSimpleDevice) is modelled on top of the          *)
(* Connection; the utilities (createCircularBuffer, parseAddress,          *)
(* apiRequest, Observable.subscribe, Subject, createDiscovery, retry) have *)
(* a specification each, in which the Connection stays as created.         *)
(***************************************************************************)
EXTENDS Integers, Sequences, FiniteSets, TLC

\* ---------------------------------------------------------------- bounds
maxReconnectAttempts == 2   \* option maxReconnectAttempts (default 10)
MaxTasks == 2               \* connect()/handleReconnect() invocations in flight
MaxChannels == 2            \* WebSocket objects alive at once
MaxSubs == 2                \* Observable subscriptions alive at once
MaxObs == 2                 \* Observable objects referenced at once
MaxSize == 3                \* largest capacity a circular buffer is created with
MaxPushes == 5              \* pushes to a circular buffer between two clears
MaxCalls == 2               \* receiveGazeDatum() calls whose timers are alive at once
MaxTimeout == 2             \* largest timeoutMs, in poll periods of 10 ms
MaxSamples == 3             \* gaze samples the facade is handed
GazeBufferLimit == 2        \* stands for the 1000 samples the facade buffers
MaxRequests == 2            \* apiRequest() calls in flight at once
MaxLen == 7                 \* longest address string passed to parseAddress()
MaxSync == 2                \* notifications a subscriber function sends before it returns
MaxNotes == 3               \* notifications an observer is handed
MaxUnsubs == 2              \* unsubscribe() calls counted
MaxWatchers == 3            \* subscribe() calls made on a Subject
MaxValues == 2              \* values a Subject hands to one observer
MaxAttempts == 3            \* largest option maxAttempts passed to retry()
MaxDelayMs == 4             \* largest initialDelay and maxDelay passed to retry()
MaxFactor == 2              \* largest option factor passed to retry()

Configs == {"{}"}           \* JSON.stringify(config) of the configs the application uses
Statuses == {"s1", "s2"}    \* the status objects the device sends

Tasks == 1..MaxTasks
Chans == 1..MaxChannels
Subs == 1..MaxSubs
ObsIds == 1..MaxObs

VARIABLES
  autoReconnect,      \* option autoReconnect, fixed at construction
  listeners,          \* the emitter's listeners for 'error': "on", "once" or "none"
  connectionState,    \* state.connectionState
  deviceInfo,         \* state.deviceInfo: the status object merged last, "info" if none
  reconnectAttempts,  \* state.reconnectAttempts
  websockets,         \* state.websockets: channel registered under 'status', 0 if none
  streams,            \* state.streams: stream key -> Observable, 0 if no entry
  chan,               \* the WebSocket objects
  task,               \* the connect()/handleReconnect() invocations
  sub,                \* the subscriptions (closure of Observable.subscribe)
  held,               \* application: last Observable obtained from createGazeStream
  last,               \* what the most recent step did (observation only)
  cut,                \* what the last disconnect() interrupted, until connect() is called again
  episode,            \* bookkeeping of the current reconnect episode (observation only)
  ring,               \* a createCircularBuffer(size): size, buffer, head, tail, count
  pushed,             \* what was pushed to it since it was created or cleared (observation only)
  gazeBuffer,         \* createSimpleDevice: gazeBuffer, the samples numbered by arrival
  gazeSubscription,   \* createSimpleDevice: gazeSubscription (has: not null; slot: its subscription)
  isStreaming,        \* createSimpleDevice: isStreaming
  calls,              \* the receiveGazeDatum() promises and their timers
  arrived,            \* number of samples the facade's observer was handed (observation only)
  returned,           \* the samples receiveGazeDatum() resolved with, in order (observation only)
  requests,           \* the apiRequest() invocations
  address,            \* the argument of parseAddress(), a string as its characters
  parsed,             \* what parseAddress(address) returned or threw
  script,             \* what the subscriber function of an Observable does when called
  subscription,       \* the closure of one Observable.subscribe() call
  outcome,            \* how the apiRequest() promise that settled last settled (observation only)
  subject,            \* a Subject: _closed, _observers and the subscriptions made on it
  discovery,          \* a discovery service: isDiscovering, discoveredDevices, what it emitted last
  retrying            \* a retry(fn, options) invocation

\* the variables of the utilities, which no step of a Connection touches
ringVars == <<ring, pushed>>

\* the variables of a facade (createSimpleDevice)
facadeVars == <<gazeBuffer, gazeSubscription, isStreaming, calls, arrived, returned>>

apiVars == <<requests, outcome>>

parseVars == <<address, parsed>>

obsVars == <<script, subscription>>

\* the Subject, the discovery service and the retry() invocation
toolVars == <<subject, discovery, retrying>>

utilVars == <<ringVars, apiVars, parseVars, obsVars, toolVars>>

libVars == <<utilVars, facadeVars>>

vars == <<autoReconnect, listeners, connectionState, deviceInfo, reconnectAttempts,
          websockets, streams, chan, task, sub, held, last, cut, episode, libVars>>

\* the variables of a Connection
connVars == <<autoReconnect, listeners, connectionState, deviceInfo, reconnectAttempts,
              websockets, streams, chan, task, sub, held, last, cut, episode>>

\* ------------------------------------------------------------ constants
ConnectionState == {"disconnected", "connecting", "connected", "reconnecting", "error"}

NoChan == [kind |-> "none", rs |-> "closed", owner |-> 0, hooked |-> FALSE]
IdleTask == [pc |-> "idle", caller |-> "none"]
FreeSub == [used |-> FALSE, key |-> <<>>, obs |-> 0, closed |-> TRUE, ws |-> "none"]
NoEpisode == [active |-> FALSE, attempts |-> 0, terminals |-> 0]

streamKey(config) == <<"gaze", config>>

\* the connection entries of EVENT_TYPES, keyed as the steps of the model
\* name what they emit; the table has no CONNECTING and no STATUS_UPDATE key
EVENT_TYPES ==
  [connected |-> "connected", disconnected |-> "disconnected",
   reconnecting |-> "reconnecting", error |-> "error"]

\* the event type emit() is passed for e: the table entry, undefined when
\* the table has no such key ("error_max" is the ERROR emitted at the ceiling)
eventName(e) ==
  LET key == IF e = "error_max" THEN "error" ELSE e
  IN IF key \in DOMAIN EVENT_TYPES THEN EVENT_TYPES[key] ELSE "undefined"

StreamKeys == {streamKey(c) : c \in Configs}

Min(a, b) == IF a < b THEN a ELSE b

Range(s) == {s[i] : i \in DOMAIN s}

\* What a step reports about itself: the handler that ran, the values
\* state.connectionState took (the value before the step first), the
\* lifecycle events emitted, the WebSockets close() was called on, for a
\* step of a subscription the subscription, and what the step handed to the
\* application's callbacks (observer.error, observer.complete, a rejected
\* promise).
Did(op, states, events, closed) ==
  [op |-> op, states |-> <<connectionState>> \o states, events |-> events,
   closed |-> closed, who |-> 0, told |-> {}]

DidSub(op, s, closes) ==
  [Did(op, <<>>, <<>>, IF closes THEN {<<"gaze", s>>} ELSE {}) EXCEPT !.who = s]

\* ------------------------------------------------------- object storage
\* WebSocket objects, invocations and subscriptions live in numbered slots;
\* a slot is reused once nothing of the program refers to the object.
Pending(t) == task[t].pc # "idle"

AllIdle == \A t \in Tasks : ~Pending(t)

FreeTask(t) == /\ ~Pending(t)
               /\ \A u \in Tasks : u < t => Pending(u)

FreeChan(c) == /\ chan[c].kind = "none"
               /\ \A d \in Chans : d < c => chan[d].kind # "none"

FreeSubSlot(s) == /\ ~sub[s].used
                  /\ \A r \in Subs : r < s => sub[r].used

\* a closed WebSocket is dropped unless state.websockets still holds it
Reclaim(ch, ws) ==
  [c \in Chans |-> IF ch[c].rs = "closed" /\ c # ws THEN NoChan ELSE ch[c]]

\* a closed subscription is dropped once its WebSocket is gone
ReclaimSubs(sb) ==
  [s \in Subs |-> IF sb[s].used /\ sb[s].closed /\ sb[s].ws = "none"
                  THEN FreeSub ELSE sb[s]]

\* ------------------------------------------------------------ Init
\* the Connection createDevice() returns
Created ==
  /\ autoReconnect \in BOOLEAN
  /\ connectionState = "disconnected"
  /\ deviceInfo = "info"
  /\ reconnectAttempts = 0
  /\ websockets = 0
  /\ streams = [k \in StreamKeys |-> 0]
  /\ chan = [c \in Chans |-> NoChan]
  /\ task = [t \in Tasks |-> IdleTask]
  /\ sub = [s \in Subs |-> FreeSub]
  /\ held = [c \in Configs |-> 0]
  /\ last = Did("create", <<>>, <<>>, {})
  /\ cut = "none"
  /\ episode = NoEpisode

\* no circular buffer exists
NoRing ==
  /\ ring = [size |-> 0, buffer |-> <<>>, head |-> 0, tail |-> 0, count |-> 0]
  /\ pushed = <<>>

FreeCall == [state |-> "free", timeoutMs |-> 0, waited |-> 0, poll |-> "none",
             timer |-> "none"]

\* createSimpleDevice(device): no sample, no subscription, no call yet
NewFacade ==
  /\ gazeBuffer = <<>>
  /\ gazeSubscription = [has |-> FALSE, slot |-> 0]
  /\ isStreaming = FALSE
  /\ calls = [c \in 1..MaxCalls |-> FreeCall]
  /\ arrived = 0
  /\ returned = <<>>

IdleRequest == [pc |-> "idle", url |-> <<>>, status |-> 0]

\* no request/response call was made yet
NoRequests ==
  /\ requests = [r \in 1..MaxRequests |-> IdleRequest]
  /\ outcome = [settled |-> "none"]

\* parseAddress() was not called
NotParsed == [done |-> FALSE]

NoAddress == address = <<>> /\ parsed = NotParsed

\* subscribe() was not called: closed and cleanup as declared, nothing
\* handed to the observer (log), cleanup not run, unsubscribe() not called
NotSubscribed ==
  [subscribed |-> FALSE, closed |-> FALSE, cleanup |-> FALSE, log |-> <<>>,
   ran |-> 0, unsubs |-> 0, late |-> FALSE]

NoObservable ==
  /\ script = [sync |-> <<>>, throws |-> FALSE, returns |-> FALSE]
  /\ subscription = NotSubscribed

Watchers == 1..MaxWatchers   \* the subscribe() calls made on the Subject

\* new Subject(): not closed, no observer; of each subscribe() call the
\* state of its subscription ("none" before the call) and, for observation,
\* how many values its observer was handed and whether one came late
NewSubject ==
  [closed |-> FALSE, observers |-> {}, subs |-> [w \in Watchers |-> "none"],
   got |-> [w \in Watchers |-> 0], late |-> FALSE]

NoSubject == subject = NewSubject

\* what createDiscovery() returns: not discovering, no browser, no device
\* known; for observation the services the browser has seen come up and
\* not go down, and what the last step emitted
Silent == [type |-> "none", id |-> "", device |-> {}, heard |-> FALSE]

NewDiscovery ==
  [isDiscovering |-> FALSE, browser |-> FALSE, discoveredDevices |-> {},
   handlers |-> FALSE, up |-> {}, emitted |-> Silent]

NoDiscovery == discovery = NewDiscovery

\* retry() was not called
NoRetry == retrying = [pc |-> "idle"]

NoTools == NoSubject /\ NoDiscovery /\ NoRetry

\* no utility is in use
LibIdle == NoRing /\ NewFacade /\ NoRequests /\ NoAddress /\ NoObservable /\ NoTools

\* the application registers a lasting listener for 'error' with on()
Init == Created /\ listeners = "on" /\ LibIdle

\* ------------------------------------------------- connection management
\* (variant: the guard tests the wrong state)
AlreadyConnected_WrongState(cs) == cs = "connecting"

\* the guard at the head of connect()
AlreadyConnected(cs) == cs = "connected"

\* (variant: the ceiling test is off by one)
ReachedCeiling_OffByOne(n) == n > maxReconnectAttempts

\* the guard at the head of handleReconnect()
ReachedCeiling(n) == n >= maxReconnectAttempts

\* handleReconnect() up to its first await: what it assigns and emits, and
\* whether it leaves a timer pending ("wait") or returns ("idle")
handleReconnect(n) ==
  IF ReachedCeiling(n)
  THEN [pc |-> "idle", states |-> <<"error">>, attempts |-> n,
        events |-> <<"error_max">>]
  ELSE [pc |-> "wait", states |-> <<"reconnecting">>, attempts |-> n + 1,
        events |-> <<"reconnecting">>]

\* emitter.emit(EVENT_TYPES.ERROR, ...) with the listeners l: an EventEmitter
\* without a listener for 'error' throws, and a once() listener is removed
\* by the call that runs it
emitError(l) == [threw |-> l = "none", left |-> IF l = "once" THEN "none" ELSE l]

\* the episode bookkeeping after handleReconnect() has run
Noted(ep, hr) ==
  IF "error_max" \in Range(hr.events)
  THEN [ep EXCEPT !.terminals = Min(@ + 1, 2)] ELSE ep

\* connect() up to its first await, run by invocation t
connect(t, caller) ==
  IF AlreadyConnected(connectionState)
  THEN /\ task' = [task EXCEPT ![t] = IdleTask]
       /\ last' = Did(caller, <<>>, <<>>, {})
       /\ UNCHANGED connectionState
  ELSE /\ connectionState' = "connecting"
       /\ task' = [task EXCEPT ![t] = [pc |-> "http", caller |-> caller]]
       /\ last' = Did(caller, <<"connecting">>, <<"connecting">>, {})

\* the application calls device.connect()
AppConnect ==
  /\ \E t \in Tasks : FreeTask(t) /\ connect(t, "connect")
  /\ cut' = "none"
  /\ episode' = NoEpisode
  /\ UNCHANGED <<libVars, autoReconnect, listeners, deviceInfo, reconnectAttempts, websockets, streams, chan, sub, held>>

\* the catch block of connect(), run by invocation t.  An emit that throws
\* leaves the catch block at once; handleReconnect() is called without await,
\* so what it throws rejects a promise nothing handles.
ConnectFailed(t, op, ch) ==
  LET e1 == emitError(listeners)
      hr == IF autoReconnect /\ ~e1.threw
            THEN handleReconnect(reconnectAttempts)
            ELSE [pc |-> "idle", states |-> <<>>, attempts |-> reconnectAttempts,
                  events |-> <<>>]
      atCeiling == "error_max" \in Range(hr.events)
      e2 == IF atCeiling THEN emitError(e1.left) ELSE [threw |-> FALSE, left |-> e1.left]
      st == <<"error">> \o hr.states
  IN /\ connectionState' = st[Len(st)]
     /\ reconnectAttempts' = hr.attempts
     /\ listeners' = e2.left
     /\ task' = [task EXCEPT ![t] = IF hr.pc = "wait"
                                    THEN [pc |-> "wait", caller |-> "reconnect"]
                                    ELSE IdleTask]
     /\ chan' = ch
     /\ last' = [Did(op, st, <<"error">> \o hr.events, {})
                   EXCEPT !.told = {<<"rejected", task[t].caller>>}
                                   \cup IF e2.threw
                                        THEN {<<"unhandled", "handleReconnect">>}
                                        ELSE {}]
     /\ episode' = IF autoReconnect /\ ~e1.threw THEN Noted(episode, hr) ELSE episode
     /\ UNCHANGED <<libVars, autoReconnect, deviceInfo, websockets, streams, sub, held, cut>>

\* await apiRequest(API_PATHS.STATUS) resolves: createWebSocket(WS_PATHS.STATUS)
HttpOk(t) ==
  /\ task[t].pc = "http"
  /\ \E c \in Chans :
       /\ FreeChan(c)
       /\ chan' = [chan EXCEPT ![c] = [kind |-> "status", rs |-> "connecting",
                                       owner |-> t, hooked |-> FALSE]]
       /\ last' = Did("statusReply", <<>>, <<>>, {})
  /\ \E status \in Statuses : deviceInfo' = status
  /\ task' = [task EXCEPT ![t].pc = "ws"]
  /\ UNCHANGED <<libVars, autoReconnect, listeners, connectionState, reconnectAttempts, websockets,
                 streams, sub, held, cut, episode>>

\* await apiRequest(API_PATHS.STATUS) rejects
HttpFail(t) ==
  /\ task[t].pc = "http"
  /\ ConnectFailed(t, "statusRequestFailed", chan)

\* await createWebSocket(WS_PATHS.STATUS) resolves: the rest of the try block
StatusOpened(t) ==
  /\ task[t].pc = "ws"
  /\ \E c \in Chans :
       /\ chan[c].kind = "status" /\ chan[c].rs = "connecting" /\ chan[c].owner = t
       /\ websockets' = c
       /\ chan' = Reclaim([chan EXCEPT ![c] = [kind |-> "status", rs |-> "open",
                                               owner |-> 0, hooked |-> TRUE]], c)
  /\ connectionState' = "connected"
  /\ reconnectAttempts' = 0
  /\ task' = [task EXCEPT ![t] = IdleTask]
  /\ last' = Did("statusOpened", <<"connected">>, <<"connected">>, {})
  /\ episode' = NoEpisode
  /\ UNCHANGED <<libVars, autoReconnect, listeners, deviceInfo, streams, sub, held, cut>>

\* await createWebSocket(WS_PATHS.STATUS) rejects (error event or timeout)
StatusOpenFailed(t) ==
  /\ task[t].pc = "ws"
  /\ \E c \in Chans :
       /\ chan[c].kind = "status" /\ chan[c].rs = "connecting" /\ chan[c].owner = t
       /\ ConnectFailed(t, "statusOpenFailed", [chan EXCEPT ![c] = NoChan])

\* (variant: the close handler ignores the autoReconnect option)
ShouldReconnect_IgnoresOption(ar, cs) == cs = "connected"

\* (variant: the close handler never starts a reconnect)
ShouldReconnect_Never(ar, cs) == FALSE

\* the test of the 'close' handler of a status WebSocket
ShouldReconnect(ar, cs) == ar /\ cs = "connected"

\* (variant: a status message that fails to parse closes the channel)
StatusMessage_ClosesOnError(c, status, ok) ==
  /\ chan[c].kind = "status" /\ chan[c].rs = "open" /\ chan[c].hooked
  /\ chan' = [chan EXCEPT ![c].rs = "closing"]
  /\ last' = Did("statusParseFailed", <<>>, <<"error">>, {<<"status", c>>})
  /\ UNCHANGED <<libVars, autoReconnect, listeners, deviceInfo, connectionState, reconnectAttempts,
                 websockets, streams, task, sub, held, cut, episode>>

\* the 'message' event of a status WebSocket whose handlers are registered;
\* ok: the data parses as JSON, to the object status
StatusMessage(c, status, ok) ==
  /\ chan[c].kind = "status" /\ chan[c].rs = "open" /\ chan[c].hooked
  /\ IF ok
     THEN /\ deviceInfo' = status
          /\ last' = Did("statusMessage", <<>>, <<"status_update">>, {})
          /\ UNCHANGED listeners
     ELSE /\ last' = [Did("statusParseFailed", <<>>, <<"error">>, {})
                        EXCEPT !.told = IF emitError(listeners).threw
                                        THEN {<<"uncaught", "statusMessage">>}
                                        ELSE {}]
          /\ listeners' = emitError(listeners).left
          /\ UNCHANGED deviceInfo
  /\ UNCHANGED <<libVars, autoReconnect, connectionState, reconnectAttempts, websockets,
                 streams, chan, task, sub, held, cut, episode>>

\* the 'close' event of a status WebSocket: the peer or the network closed
\* it, or the close() of disconnect() has completed
StatusClosed(c) ==
  /\ chan[c].kind = "status" /\ chan[c].rs \in {"open", "closing"}
  /\ chan' = Reclaim([chan EXCEPT ![c].rs = "closed"], websockets)
  /\ IF ShouldReconnect(autoReconnect, connectionState)
     THEN \E t \in Tasks :
            /\ FreeTask(t)
            /\ LET hr == handleReconnect(reconnectAttempts)
                   e == IF "error_max" \in Range(hr.events)
                        THEN emitError(listeners)
                        ELSE [threw |-> FALSE, left |-> listeners]
               IN /\ connectionState' = hr.states[1]
                  /\ reconnectAttempts' = hr.attempts
                  /\ listeners' = e.left
                  /\ task' = [task EXCEPT ![t] =
                                IF hr.pc = "wait"
                                THEN [pc |-> "wait", caller |-> "reconnect"]
                                ELSE IdleTask]
                  /\ last' = [Did("statusClosed", hr.states, hr.events, {})
                                EXCEPT !.told = IF e.threw
                                                THEN {<<"unhandled", "handleReconnect">>}
                                                ELSE {}]
                  /\ episode' = Noted([NoEpisode EXCEPT !.active = TRUE], hr)
     ELSE /\ last' = Did("statusClosed", <<>>, <<>>, {})
          /\ UNCHANGED <<connectionState, reconnectAttempts, listeners, task, episode>>
  /\ UNCHANGED <<libVars, autoReconnect, deviceInfo, websockets, streams, sub, held, cut>>

\* the timer of handleReconnect() expires: await connect()
TimerFired(t) ==
  /\ task[t].pc = "wait"
  /\ connect(t, "reconnect")
  /\ episode' = IF episode.active /\ ~AlreadyConnected(connectionState)
                THEN [episode EXCEPT !.attempts = Min(@ + 1, maxReconnectAttempts + 1)]
                ELSE episode
  /\ UNCHANGED <<libVars, autoReconnect, listeners, deviceInfo, reconnectAttempts, websockets, streams, chan, sub,
                 held, cut>>

\* what a disconnect() finds in flight
Interrupted ==
  LET w == \E t \in Tasks : task[t].pc = "wait"
      f == \E t \in Tasks : task[t].pc \in {"http", "ws"}
  IN IF w /\ f THEN "both" ELSE IF w THEN "wait" ELSE IF f THEN "connect" ELSE cut

\* (variant: the stream registry is left as it is)
clear_KeepsEntries(m) == m

\* state.streams.clear()
clear(m) == [k \in DOMAIN m |-> 0]

\* the application calls device.disconnect()
Disconnect ==
  LET open == IF websockets # 0 /\ chan[websockets].rs = "open"
              THEN {<<"status", websockets>>} ELSE {}
  IN /\ connectionState' = "disconnected"
     /\ chan' = Reclaim([c \in Chans |-> IF <<"status", c>> \in open
                                         THEN [chan[c] EXCEPT !.rs = "closing"]
                                         ELSE chan[c]], 0)
     /\ websockets' = 0
     /\ streams' = clear(streams)
     /\ last' = Did("disconnect", <<"disconnected">>, <<"disconnected">>, open)
     /\ cut' = Interrupted
     /\ episode' = NoEpisode
     /\ UNCHANGED <<libVars, autoReconnect, listeners, deviceInfo, reconnectAttempts, task, sub, held>>

\* ------------------------------------------------------- gaze streams
\* createGazeStream(config): the registry lookup, else a new Observable
CreateGazeStream(cfg) ==
  LET key == streamKey(cfg)
      busy == {streams[k] : k \in StreamKeys}
              \cup {held[c] : c \in Configs \ {cfg}}
              \cup {sub[s].obs : s \in Subs}
  IN /\ IF streams[key] # 0
        THEN /\ held' = [held EXCEPT ![cfg] = streams[key]]
             /\ UNCHANGED streams
        ELSE \E o \in ObsIds :
               /\ o \notin busy
               /\ \A q \in ObsIds : q < o => q \in busy
               /\ streams' = [streams EXCEPT ![key] = o]
               /\ held' = [held EXCEPT ![cfg] = o]
     /\ last' = Did("createGazeStream", <<>>, <<>>, {})
     /\ UNCHANGED <<libVars, autoReconnect, listeners, deviceInfo, connectionState, reconnectAttempts, websockets,
                    chan, task, sub, cut, episode>>

\* the cleanup function returned by the subscriber function: sb is the
\* subscription record, st the registry
cleanup(sb, st) ==
  [ws |-> IF sb.ws = "open" THEN "closing" ELSE sb.ws,
   streams |-> [st EXCEPT ![sb.key] = 0],
   closes |-> sb.ws = "open"]

\* safeObserver.error of subscription s, whose record is now sb: the
\* observer is told once, then cleanup runs
subscriberError(s, op, sb) ==
  IF sb.closed
  THEN /\ sub' = ReclaimSubs([sub EXCEPT ![s] = sb])
       /\ last' = DidSub(op, s, FALSE)
       /\ UNCHANGED streams
  ELSE LET cl == cleanup(sb, streams)
       IN /\ sub' = ReclaimSubs([sub EXCEPT ![s] = [sb EXCEPT !.closed = TRUE,
                                                               !.ws = cl.ws]])
          /\ streams' = cl.streams
          /\ last' = [DidSub(op, s, cl.closes) EXCEPT !.told = {<<"error", s>>}]

\* (variant: only the Disconnected state refuses a subscriber)
NotConnected_OnlyDisconnected(cs) == cs = "disconnected"

\* the guard at the head of the subscriber function
NotConnected(cs) == cs # "connected"

\* the application subscribes to the Observable it holds for cfg; a refused
\* subscriber is told the error before the subscriber function has returned
\* a cleanup, so nothing is cleaned up
Subscribe(cfg) ==
  /\ held[cfg] # 0
  /\ IF NotConnected(connectionState)
     THEN /\ last' = [Did("subscribeRefused", <<>>, <<>>, {})
                        EXCEPT !.told = {<<"error", 0>>}]
          /\ UNCHANGED sub
     ELSE \E s \in Subs :
            /\ FreeSubSlot(s)
            /\ sub' = [sub EXCEPT ![s] = [used |-> TRUE, key |-> streamKey(cfg),
                                          obs |-> held[cfg], closed |-> FALSE,
                                          ws |-> "connecting"]]
            /\ last' = DidSub("subscribe", s, FALSE)
  /\ UNCHANGED <<libVars, autoReconnect, listeners, deviceInfo, connectionState, reconnectAttempts, websockets,
                 streams, chan, task, held, cut, episode>>

\* subscription.unsubscribe()
Unsubscribe(s) ==
  /\ sub[s].used /\ ~sub[s].closed
  /\ LET cl == cleanup(sub[s], streams)
     IN /\ sub' = ReclaimSubs([sub EXCEPT ![s].closed = TRUE, ![s].ws = cl.ws])
        /\ streams' = cl.streams
        /\ last' = DidSub("unsubscribe", s, cl.closes)
  /\ UNCHANGED <<libVars, autoReconnect, listeners, deviceInfo, connectionState, reconnectAttempts, websockets,
                 chan, task, held, cut, episode>>

\* await createWebSocket(WS_PATHS.GAZE) resolves in startStream()
GazeOpened(s) ==
  /\ sub[s].ws = "connecting"
  /\ sub' = [sub EXCEPT ![s].ws = "open"]
  /\ last' = DidSub("gazeOpened", s, FALSE)
  /\ UNCHANGED <<libVars, autoReconnect, listeners, deviceInfo, connectionState, reconnectAttempts, websockets,
                 streams, chan, task, held, cut, episode>>

\* await createWebSocket(WS_PATHS.GAZE) rejects in startStream()
GazeOpenFailed(s) ==
  /\ sub[s].ws = "connecting"
  /\ subscriberError(s, "gazeOpenFailed", [sub[s] EXCEPT !.ws = "none"])
  /\ UNCHANGED <<libVars, autoReconnect, listeners, deviceInfo, connectionState, reconnectAttempts, websockets,
                 chan, task, held, cut, episode>>

\* (variant: a frame that fails to decode puts the Connection in Error)
GazeMessage_Fatal(s, ok) ==
  /\ sub[s].ws = "open"
  /\ subscriberError(s, "gazeDecodeFailed", sub[s])
  /\ connectionState' = "error"
  /\ UNCHANGED <<libVars, autoReconnect, listeners, deviceInfo, reconnectAttempts, websockets,
                 chan, task, held, cut, episode>>

\* (variant: the overflow test lets one sample too many stay)
overflows_OffByOne(buf) == Len(buf) > GazeBufferLimit + 1

\* the overflow test of the facade's observer
overflows(buf) == Len(buf) > GazeBufferLimit

\* (variant: the newest sample is taken instead of the oldest)
shift_Newest(buf) == [item |-> buf[Len(buf)], rest |-> SubSeq(buf, 1, Len(buf) - 1)]

\* gazeBuffer.shift() of a non-empty buffer: the element removed and what is left
shift(buf) == [item |-> Head(buf), rest |-> Tail(buf)]

\* the next callback of the facade's observer: push, then shift on overflow
buffered(buf, gaze) ==
  LET b == Append(buf, gaze) IN IF overflows(b) THEN shift(b).rest ELSE b

\* subscription s hands its values to the facade's observer
FeedsFacade(s) == gazeSubscription.has /\ gazeSubscription.slot = s /\ ~sub[s].closed

\* a frame arrives on an open gaze WebSocket; ok: it parses as JSON and is
\* handed to the observer, which for the facade's subscription buffers it
GazeMessage(s, ok) ==
  /\ sub[s].ws = "open"
  /\ IF ok
     THEN /\ last' = DidSub("gazeData", s, FALSE)
          /\ UNCHANGED <<sub, streams>>
     ELSE subscriberError(s, "gazeDecodeFailed", sub[s])
  /\ IF ok /\ FeedsFacade(s)
     THEN /\ arrived < MaxSamples
          /\ arrived' = arrived + 1
          /\ gazeBuffer' = buffered(gazeBuffer, arrived + 1)
     ELSE UNCHANGED <<arrived, gazeBuffer>>
  /\ UNCHANGED <<gazeSubscription, isStreaming, calls, returned>>
  /\ UNCHANGED <<utilVars, autoReconnect, listeners, deviceInfo, connectionState, reconnectAttempts, websockets,
                 chan, task, held, cut, episode>>

\* the 'error' event of an open gaze WebSocket
GazeError(s) ==
  /\ sub[s].ws = "open"
  /\ subscriberError(s, "gazeError", sub[s])
  /\ UNCHANGED <<libVars, autoReconnect, listeners, deviceInfo, connectionState, reconnectAttempts, websockets,
                 chan, task, held, cut, episode>>

\* the 'close' event of a gaze WebSocket
GazeClosed(s) ==
  /\ sub[s].ws \in {"open", "closing"}
  /\ subscriberError(s, "gazeClosed", [sub[s] EXCEPT !.ws = "none"])
  /\ UNCHANGED <<libVars, autoReconnect, listeners, deviceInfo, connectionState, reconnectAttempts, websockets,
                 chan, task, held, cut, episode>>

\* ------------------------------------------------------ specifications
\* the application may call connect() and disconnect() at any time
Next ==
  \/ AppConnect
  \/ Disconnect
  \/ \E t \in Tasks : HttpOk(t)
  \/ \E t \in Tasks : HttpFail(t)
  \/ \E t \in Tasks : StatusOpened(t)
  \/ \E t \in Tasks : StatusOpenFailed(t)
  \/ \E t \in Tasks : TimerFired(t)
  \/ \E c \in Chans : StatusClosed(c)
  \/ \E c \in Chans, status \in Statuses, ok \in BOOLEAN : StatusMessage(c, status, ok)

Spec == Init /\ [][Next]_vars

\* the application calls connect() and disconnect() only while no connect()
\* and no reconnect wait of the Connection is in flight
AwaitedConnect == AllIdle /\ AppConnect

AwaitedDisconnect == AllIdle /\ Disconnect

NextAwaited ==
  \/ AwaitedConnect
  \/ AwaitedDisconnect
  \/ \E t \in Tasks : HttpOk(t)
  \/ \E t \in Tasks : HttpFail(t)
  \/ \E t \in Tasks : StatusOpened(t)
  \/ \E t \in Tasks : StatusOpenFailed(t)
  \/ \E t \in Tasks : TimerFired(t)
  \/ \E c \in Chans : StatusClosed(c)
  \/ \E c \in Chans, status \in Statuses, ok \in BOOLEAN : StatusMessage(c, status, ok)

SpecAwaited == Init /\ [][NextAwaited]_vars

\* a Connection created with autoReconnect: false; no timer is ever started
InitManual == Init /\ ~autoReconnect

NextManual ==
  \/ AppConnect
  \/ Disconnect
  \/ \E t \in Tasks : HttpOk(t)
  \/ \E t \in Tasks : HttpFail(t)
  \/ \E t \in Tasks : StatusOpened(t)
  \/ \E t \in Tasks : StatusOpenFailed(t)
  \/ \E c \in Chans : StatusClosed(c)
  \/ \E c \in Chans, status \in Statuses, ok \in BOOLEAN : StatusMessage(c, status, ok)

SpecManual == InitManual /\ [][NextManual]_vars

\* the gaze streams of a Connection whose application awaits its calls
NextStreams ==
  \/ NextAwaited
  \/ \E cfg \in Configs : CreateGazeStream(cfg)
  \/ \E cfg \in Configs : Subscribe(cfg)
  \/ \E s \in Subs : Unsubscribe(s)
  \/ \E s \in Subs : GazeOpened(s)
  \/ \E s \in Subs : GazeOpenFailed(s)
  \/ \E s \in Subs, ok \in BOOLEAN : GazeMessage(s, ok)
  \/ \E s \in Subs : GazeError(s)
  \/ \E s \in Subs : GazeClosed(s)

SpecStreams == Init /\ [][NextStreams]_vars

\* the registries of a Connection whose application calls connect(),
\* disconnect() and createGazeStream() at any time
NextRegistries ==
  \/ Next
  \/ \E cfg \in Configs : CreateGazeStream(cfg)

SpecRegistries == Init /\ [][NextRegistries]_vars

\* the application calls device.once('error', h) while no listener for
\* 'error' is registered
AppOnceError ==
  /\ listeners = "none"
  /\ listeners' = "once"
  /\ last' = Did("once", <<>>, <<>>, {})
  /\ UNCHANGED <<libVars, autoReconnect, deviceInfo, connectionState, reconnectAttempts, websockets,
                 streams, chan, task, sub, held, cut, episode>>

\* a Connection whose application listens for 'error' with on(), with
\* once() or not at all
InitListeners == Created /\ listeners \in {"on", "once", "none"} /\ LibIdle

NextListeners ==
  \/ Next
  \/ AppOnceError

SpecListeners == InitListeners /\ [][NextListeners]_vars

\* --------------------------------------------------------------- facade
Timeouts == 1..MaxTimeout   \* the timeoutMs the application passes, in poll periods

Calls == 1..MaxCalls

FreeCallSlot(c) == /\ calls[c].state = "free"
                   /\ \A d \in Calls : d < c => calls[d].state # "free"

\* a promise that is settled and has no timer left is dropped
Settle(cs) ==
  [c \in Calls |-> IF cs[c].state = "settled" /\ cs[c].poll = "none" /\ cs[c].timer = "none"
                   THEN FreeCall ELSE cs[c]]

\* receiveGazeDatum(timeoutMs), its promise kept in slot c: startGazeStreaming()
\* if the facade is not streaming (createGazeStream() and subscribe), then
\* the executor of the promise
receiveGazeDatum(c, timeoutMs) ==
  LET key == streamKey("{}")
      busy == {streams[k] : k \in StreamKeys} \cup {held[cfg] : cfg \in Configs}
              \cup {sub[s].obs : s \in Subs}
  IN /\ FreeCallSlot(c)
     /\ IF isStreaming
        THEN UNCHANGED <<isStreaming, gazeSubscription, streams, sub>>
        ELSE /\ isStreaming' = TRUE
             /\ \E o \in ObsIds :
                  /\ IF streams[key] # 0 THEN o = streams[key]
                     ELSE o \notin busy /\ \A q \in ObsIds : q < o => q \in busy
                  /\ streams' = [streams EXCEPT ![key] = o]
                  /\ IF NotConnected(connectionState)
                     THEN /\ gazeSubscription' = [has |-> TRUE, slot |-> 0]
                          /\ UNCHANGED sub
                     ELSE \E s \in Subs :
                            /\ FreeSubSlot(s)
                            /\ sub' = [sub EXCEPT ![s] =
                                         [used |-> TRUE, key |-> key, obs |-> o,
                                          closed |-> FALSE, ws |-> "connecting"]]
                            /\ gazeSubscription' = [has |-> TRUE, slot |-> s]
     /\ IF gazeBuffer # <<>>
        THEN /\ gazeBuffer' = shift(gazeBuffer).rest
             /\ returned' = Append(returned, shift(gazeBuffer).item)
             /\ last' = [Did("receiveGazeDatum", <<>>, <<>>, {})
                           EXCEPT !.who = c, !.told = {<<"gaze", shift(gazeBuffer).item>>}]
             /\ UNCHANGED calls
        ELSE /\ calls' = [calls EXCEPT ![c] =
                            [state |-> "pending", timeoutMs |-> timeoutMs, waited |-> 0,
                             poll |-> "armed", timer |-> "armed"]]
             /\ last' = [Did("receiveGazeDatum", <<>>, <<>>, {}) EXCEPT !.who = c]
             /\ UNCHANGED <<gazeBuffer, returned>>
     /\ UNCHANGED <<utilVars, arrived, autoReconnect, listeners, deviceInfo, connectionState,
                    reconnectAttempts, websockets, chan, task, held, cut, episode>>

\* one poll period passes; an expired timer runs before more time passes
Advance ==
  /\ \E c \in Calls : calls[c].state # "free"
  /\ \A c \in Calls : calls[c].poll # "due" /\ calls[c].timer # "due"
  /\ calls' = [c \in Calls |->
                 [calls[c] EXCEPT
                    !.poll = IF @ = "armed" THEN "due" ELSE @,
                    !.timer = IF @ = "armed" /\ calls[c].waited + 1 >= calls[c].timeoutMs
                              THEN "due" ELSE @,
                    !.waited = IF calls[c].timer = "armed" THEN @ + 1 ELSE @]]
  /\ last' = Did("advance", <<>>, <<>>, {})
  /\ UNCHANGED <<utilVars, gazeBuffer, gazeSubscription, isStreaming, arrived, returned,
                 autoReconnect, listeners, deviceInfo, connectionState, reconnectAttempts,
                 websockets, streams, chan, task, sub, held, cut, episode>>

\* checkBuffer() of call c runs from its timer: it goes on polling after the
\* promise was rejected, and what it shifts then is returned to nobody
checkBuffer(c) ==
  /\ calls[c].poll = "due"
  /\ IF gazeBuffer # <<>>
     THEN /\ gazeBuffer' = shift(gazeBuffer).rest
          /\ calls' = Settle([calls EXCEPT ![c].poll = "none", ![c].state = "settled"])
          /\ IF calls[c].state = "pending"
             THEN /\ returned' = Append(returned, shift(gazeBuffer).item)
                  /\ last' = [Did("checkBuffer", <<>>, <<>>, {})
                                EXCEPT !.who = c, !.told = {<<"gaze", shift(gazeBuffer).item>>}]
             ELSE /\ last' = [Did("checkBuffer", <<>>, <<>>, {}) EXCEPT !.who = c]
                  /\ UNCHANGED returned
     ELSE /\ calls' = [calls EXCEPT ![c].poll = "armed"]
          /\ last' = [Did("checkBuffer", <<>>, <<>>, {}) EXCEPT !.who = c]
          /\ UNCHANGED <<gazeBuffer, returned>>
  /\ UNCHANGED <<utilVars, gazeSubscription, isStreaming, arrived,
                 autoReconnect, listeners, deviceInfo, connectionState, reconnectAttempts,
                 websockets, streams, chan, task, sub, held, cut, episode>>

\* (variant: the timeout callback runs before its delay has passed)
Timeout_Early(c) ==
  /\ calls[c].timer \in {"armed", "due"}
  /\ calls' = Settle([calls EXCEPT ![c].timer = "none", ![c].state = "settled",
                                    ![c].waited = 0, ![c].timeoutMs = 0])
  /\ last' = [Did("timeout", <<>>, <<>>, {})
                EXCEPT !.who = c,
                       !.told = IF calls[c].state = "pending"
                                THEN {<<"rejected", "Timeout waiting for gaze data">>}
                                ELSE {}]
  /\ UNCHANGED <<utilVars, gazeBuffer, gazeSubscription, isStreaming, arrived, returned,
                 autoReconnect, listeners, deviceInfo, connectionState, reconnectAttempts,
                 websockets, streams, chan, task, sub, held, cut, episode>>

\* the timeout callback of call c runs: reject(new Error('Timeout waiting
\* for gaze data')), which does nothing to a promise already resolved
Timeout(c) ==
  /\ calls[c].timer = "due"
  /\ calls' = Settle([calls EXCEPT ![c].timer = "none", ![c].state = "settled",
                                    ![c].waited = 0, ![c].timeoutMs = 0])
  /\ last' = [Did("timeout", <<>>, <<>>, {})
                EXCEPT !.who = c,
                       !.told = IF calls[c].state = "pending"
                                THEN {<<"rejected", "Timeout waiting for gaze data">>}
                                ELSE {}]
  /\ UNCHANGED <<utilVars, gazeBuffer, gazeSubscription, isStreaming, arrived, returned,
                 autoReconnect, listeners, deviceInfo, connectionState, reconnectAttempts,
                 websockets, streams, chan, task, sub, held, cut, episode>>

\* (variant: close() leaves the gaze subscription as it is)
close_KeepsSubscription ==
  /\ isStreaming' = FALSE
  /\ gazeBuffer' = <<>>
  /\ last' = Did("close", <<>>, <<>>, {})
  /\ UNCHANGED <<utilVars, gazeSubscription, calls, arrived, returned,
                 autoReconnect, listeners, deviceInfo, connectionState, reconnectAttempts,
                 websockets, streams, chan, task, sub, held, cut, episode>>

\* close() of the facade: unsubscribe, forget the subscription, empty the
\* buffer, then device.disconnect()
close ==
  LET s == gazeSubscription.slot
      live == gazeSubscription.has /\ s # 0 /\ sub[s].used /\ ~sub[s].closed
      cl == IF live THEN cleanup(sub[s], streams)
            ELSE [ws |-> "none", streams |-> streams, closes |-> FALSE]
      open == IF websockets # 0 /\ chan[websockets].rs = "open"
              THEN {<<"status", websockets>>} ELSE {}
  IN /\ sub' = IF live
               THEN ReclaimSubs([sub EXCEPT ![s].closed = TRUE, ![s].ws = cl.ws])
               ELSE sub
     /\ gazeSubscription' = [has |-> FALSE, slot |-> 0]
     /\ isStreaming' = FALSE
     /\ gazeBuffer' = <<>>
     /\ connectionState' = "disconnected"
     /\ chan' = Reclaim([c \in Chans |-> IF <<"status", c>> \in open
                                         THEN [chan[c] EXCEPT !.rs = "closing"]
                                         ELSE chan[c]], 0)
     /\ websockets' = 0
     /\ streams' = clear(cl.streams)
     /\ last' = Did("close", <<"disconnected">>, <<"disconnected">>,
                    open \cup IF cl.closes THEN {<<"gaze", s>>} ELSE {})
     /\ cut' = Interrupted
     /\ episode' = NoEpisode
     /\ UNCHANGED <<utilVars, calls, arrived, returned, autoReconnect, listeners, deviceInfo,
                    reconnectAttempts, task, held>>

\* connectToDevice(address, options): createDevice(), await device.connect(),
\* createSimpleDevice(device)
InitFacade ==
  /\ autoReconnect \in BOOLEAN
  /\ listeners = "on"
  /\ connectionState = "connected"
  /\ deviceInfo \in Statuses
  /\ reconnectAttempts = 0
  /\ websockets = 1
  /\ streams = [k \in StreamKeys |-> 0]
  /\ chan = [c \in Chans |-> IF c = 1
                              THEN [kind |-> "status", rs |-> "open", owner |-> 0,
                                    hooked |-> TRUE]
                              ELSE NoChan]
  /\ task = [t \in Tasks |-> IdleTask]
  /\ sub = [s \in Subs |-> FreeSub]
  /\ held = [c \in Configs |-> 0]
  /\ last = [op |-> "statusOpened", states |-> <<"connecting", "connected">>,
             events |-> <<"connected">>, closed |-> {}, who |-> 0, told |-> {}]
  /\ cut = "none"
  /\ episode = NoEpisode
  /\ NoRing
  /\ NewFacade
  /\ NoRequests
  /\ NoAddress
  /\ NoObservable
  /\ NoTools

NextFacade ==
  \/ \E c \in Calls, timeoutMs \in Timeouts : receiveGazeDatum(c, timeoutMs)
  \/ Advance
  \/ \E c \in Calls : checkBuffer(c)
  \/ \E c \in Calls : Timeout(c)
  \/ close
  \/ \E s \in Subs : GazeOpened(s)
  \/ \E s \in Subs : GazeOpenFailed(s)
  \/ \E s \in Subs, ok \in BOOLEAN : GazeMessage(s, ok)
  \/ \E s \in Subs : GazeClosed(s)

SpecFacade == InitFacade /\ [][NextFacade]_vars

\* ------------------------------------------------- request/response calls
\* API_PATHS of the request/response calls
Paths == {"/api/status", "/api/recording", "/api/calibration"}

StatusCodes == {200, 299, 300, 404}   \* the HTTP status of a response

\* what fetch() or withTimeout() rejects with
Causes == {"fetch failed", "API request timed out"}

Reqs == 1..MaxRequests

FreeRequest(r) == /\ requests[r].pc = "idle"
                  /\ \A q \in Reqs : q < r => requests[q].pc # "idle"

baseURL == "http://neon.local:8080"

\* `${baseURL}${path}`
urlOf(path) == <<baseURL, path>>

\* response.ok
ok(status) == status >= 200 /\ status <= 299

APIError(message, code, details) ==
  [name |-> "APIError", message |-> message, code |-> code, details |-> details]

\* (variant: the catch block wraps whatever was thrown)
caught_WrapsAll(error) ==
  APIError("Network error during API request", "API_REQUEST_FAILED", [error |-> error])

\* the catch block of apiRequest(): what it throws for what was thrown
caught(error) ==
  IF error.name = "APIError" THEN error
  ELSE APIError("Network error during API request", "API_REQUEST_FAILED",
                [error |-> error])

\* a request/response call is made: apiRequest(path) up to await fetch()
apiRequest(r, path) ==
  /\ FreeRequest(r)
  /\ requests' = [requests EXCEPT ![r] = [pc |-> "fetch", url |-> urlOf(path),
                                          status |-> 0]]
  /\ UNCHANGED <<outcome, connVars, ringVars, facadeVars, parseVars, obsVars, toolVars>>

\* fetch() resolves with a response of the given status
Responded(r, status) ==
  /\ requests[r].pc = "fetch"
  /\ IF ok(status)
     THEN /\ requests' = [requests EXCEPT ![r].pc = "json", ![r].status = status]
          /\ UNCHANGED outcome
     ELSE /\ requests' = [requests EXCEPT ![r] = IdleRequest]
          /\ outcome' = [settled |-> "rejected", after |-> "response",
                          url |-> requests[r].url, status |-> status,
                          error |-> caught(APIError(<<"API request failed", status>>,
                                                    "API_REQUEST_FAILED",
                                                    [status |-> status,
                                                     url |-> requests[r].url]))]
  /\ UNCHANGED <<connVars, ringVars, facadeVars, parseVars, obsVars, toolVars>>

\* fetch() rejects, or the timeout of withTimeout() wins the race
Failed(r, cause) ==
  /\ requests[r].pc = "fetch"
  /\ requests' = [requests EXCEPT ![r] = IdleRequest]
  /\ outcome' = [settled |-> "rejected", after |-> "transport", url |-> requests[r].url,
                  status |-> 0,
                  error |-> caught([name |-> "Error", message |-> cause])]
  /\ UNCHANGED <<connVars, ringVars, facadeVars, parseVars, obsVars, toolVars>>

\* await response.json() settles; isJson: the body is JSON
Parsed(r, isJson) ==
  /\ requests[r].pc = "json"
  /\ requests' = [requests EXCEPT ![r] = IdleRequest]
  /\ outcome' = IF isJson
                 THEN [settled |-> "resolved", after |-> "body", url |-> requests[r].url,
                       status |-> requests[r].status]
                 ELSE [settled |-> "rejected", after |-> "body", url |-> requests[r].url,
                       status |-> requests[r].status,
                       error |-> caught([name |-> "SyntaxError",
                                         message |-> "Unexpected token"])]
  /\ UNCHANGED <<connVars, ringVars, facadeVars, parseVars, obsVars, toolVars>>

InitApi ==
  /\ Created /\ listeners = "on"
  /\ NoRing /\ NewFacade /\ NoRequests /\ NoAddress /\ NoObservable /\ NoTools

NextApi ==
  \/ \E r \in Reqs, path \in Paths : apiRequest(r, path)
  \/ \E r \in Reqs, status \in StatusCodes : Responded(r, status)
  \/ \E r \in Reqs, cause \in Causes : Failed(r, cause)
  \/ \E r \in Reqs, isJson \in BOOLEAN : Parsed(r, isJson)

SpecApi == InitApi /\ [][NextApi]_vars

\* ---------------------------------------------------------- parseAddress
\* the characters of the addresses tried: a letter, the separator, two
\* digits and a blank
Chars == {"h", ":", "0", "9", " "}

Digit == [c \in {"0", "9"} |-> IF c = "0" THEN 0 ELSE 9]

Strings == UNION {[1..n -> Chars] : n \in 0..MaxLen}

\* String.prototype.split(':')
RECURSIVE split(_)
split(str) ==
  IF \A i \in DOMAIN str : str[i] # ":" THEN <<str>>
  ELSE LET i == CHOOSE j \in DOMAIN str :
                  str[j] = ":" /\ \A k \in 1..(j - 1) : str[k] # ":"
       IN <<SubSeq(str, 1, i - 1)>> \o split(SubSeq(str, i + 1, Len(str)))

RECURSIVE trimStart(_)
trimStart(str) ==
  IF str # <<>> /\ Head(str) = " " THEN trimStart(Tail(str)) ELSE str

RECURSIVE trimEnd(_)
trimEnd(str) ==
  IF str # <<>> /\ str[Len(str)] = " "
  THEN trimEnd(SubSeq(str, 1, Len(str) - 1)) ELSE str

\* String.prototype.trim()
trim(str) == trimEnd(trimStart(str))

\* the value of a string of decimal digits
RECURSIVE valueOf(_)
valueOf(ds) ==
  IF ds = <<>> THEN 0
  ELSE 10 * valueOf(SubSeq(ds, 1, Len(ds) - 1)) + Digit[ds[Len(ds)]]

\* parseInt(str, 10): leading blanks are skipped and the longest prefix of
\* digits is converted, whatever follows it; NaN if there is no such prefix
parseInt(str) ==
  LET t == trimStart(str)
      n == CHOOSE k \in 0..Len(t) :
             /\ \A i \in 1..k : t[i] \in DOMAIN Digit
             /\ k < Len(t) => t[k + 1] \notin DOMAIN Digit
  IN IF n = 0 THEN [isNaN |-> TRUE, value |-> 0]
     ELSE [isNaN |-> FALSE, value |-> valueOf(SubSeq(t, 1, n))]

\* parseAddress(address)
parseAddress ==
  /\ ~parsed.done
  /\ parsed' =
       IF address = <<>>
       THEN [done |-> TRUE, threw |-> "Invalid address: must be a non-empty string"]
       ELSE LET parts == split(address)
            IN IF Len(parts) = 1
               THEN [done |-> TRUE, threw |-> "", host |-> trim(parts[1]), port |-> 8080]
               ELSE IF Len(parts) = 2
               THEN LET port == parseInt(parts[2])
                    IN IF port.isNaN \/ port.value < 1 \/ port.value > 65535
                       THEN [done |-> TRUE, threw |-> "Invalid port number"]
                       ELSE [done |-> TRUE, threw |-> "", host |-> trim(parts[1]),
                             port |-> port.value]
               ELSE [done |-> TRUE, threw |-> "Invalid address format"]
  /\ UNCHANGED <<address, connVars, ringVars, facadeVars, apiVars, obsVars, toolVars>>

\* the application is about to call parseAddress() with some string
InitParse ==
  /\ Created /\ listeners = "on"
  /\ NoRing /\ NewFacade /\ NoRequests /\ NoObservable /\ NoTools
  /\ address \in Strings
  /\ parsed = NotParsed

NextParse == parseAddress

SpecParse == InitParse /\ [][NextParse]_vars

\* ------------------------------------------------------------ Observable
Notes == {"next", "error", "complete"}

\* the subscriber functions tried: what the function sends to the observer
\* before it returns, whether it then throws, and whether it returns a
\* cleanup function
Scripts ==
  [sync : UNION {[1..n -> Notes] : n \in 0..MaxSync}, throws : BOOLEAN,
   returns : BOOLEAN]

\* the observer is handed a notification
handed(st, note) ==
  [st EXCEPT !.log = Append(@, note), !.late = @ \/ st.unsubs > 0]

\* cleanup is called if it is assigned and a function
cleaned(st) == [st EXCEPT !.ran = IF st.cleanup THEN @ + 1 ELSE @]

\* safeObserver.error(err) and safeObserver.complete()
terminate(st, note) ==
  IF st.closed THEN st
  ELSE cleaned(handed([st EXCEPT !.closed = TRUE], note))

\* safeObserver.next(value); throws: the observer's next callback throws
safeNext(st, throws) ==
  IF st.closed THEN st
  ELSE IF throws THEN terminate(handed(st, "next"), "error")
  ELSE handed(st, "next")

\* the subscriber function sends its notifications one after the other
RECURSIVE sent(_, _)
sent(st, notes) ==
  IF notes = <<>> THEN st
  ELSE sent(IF Head(notes) = "next" THEN safeNext(st, FALSE)
            ELSE terminate(st, Head(notes)),
            Tail(notes))

\* observable.subscribe(observer): the subscriber function runs; what it
\* returns is assigned to cleanup when it returns, what it throws goes to
\* safeObserver.error
subscribe ==
  /\ ~subscription.subscribed
  /\ LET st == sent([subscription EXCEPT !.subscribed = TRUE], script.sync)
     IN subscription' = IF script.throws THEN terminate(st, "error")
                        ELSE [st EXCEPT !.cleanup = script.returns]
  /\ UNCHANGED <<script, connVars, ringVars, facadeVars, apiVars, parseVars, toolVars>>

\* the producer calls safeObserver.next after the subscriber function returned
producerNext(throws) ==
  /\ subscription.subscribed /\ ~script.throws
  /\ Len(subscription.log) < MaxNotes
  /\ subscription' = safeNext(subscription, throws)
  /\ UNCHANGED <<script, connVars, ringVars, facadeVars, apiVars, parseVars, toolVars>>

\* the producer calls safeObserver.error or safeObserver.complete after the
\* subscriber function returned
producerEnd(note) ==
  /\ subscription.subscribed /\ ~script.throws
  /\ Len(subscription.log) < MaxNotes
  /\ subscription' = terminate(subscription, note)
  /\ UNCHANGED <<script, connVars, ringVars, facadeVars, apiVars, parseVars, toolVars>>

\* the body of subscription.unsubscribe()
unsubscribed(st) == IF st.closed THEN st ELSE cleaned([st EXCEPT !.closed = TRUE])

\* the application calls subscription.unsubscribe()
unsubscribe ==
  /\ subscription.subscribed
  /\ subscription.unsubs < MaxUnsubs
  /\ subscription' = [unsubscribed(subscription) EXCEPT !.unsubs = @ + 1]
  /\ UNCHANGED <<script, connVars, ringVars, facadeVars, apiVars, parseVars, toolVars>>

\* an Observable made of some subscriber function
InitObservable ==
  /\ Created /\ listeners = "on"
  /\ NoRing /\ NewFacade /\ NoRequests /\ NoAddress /\ NoTools
  /\ script \in Scripts
  /\ subscription = NotSubscribed

NextObservable ==
  \/ subscribe
  \/ \E throws \in BOOLEAN : producerNext(throws)
  \/ \E note \in {"error", "complete"} : producerEnd(note)
  \/ unsubscribe

SpecObservable == InitObservable /\ [][NextObservable]_vars

\* ------------------------------------------------------ circular buffer
Items == {"a", "b"}         \* what the application pushes

\* (variant: the fill test is off by one)
hasRoom_OffByOne(count, size) == count <= size

\* the test of push(): the buffer is not full yet
hasRoom(count, size) == count < size

\* push(item)
push(item) ==
  /\ ring.size > 0
  /\ Len(pushed) < MaxPushes
  /\ ring' = [ring EXCEPT !.buffer[ring.head] = item,
                           !.head = (ring.head + 1) % ring.size,
                           !.count = IF hasRoom(ring.count, ring.size) THEN @ + 1 ELSE @,
                           !.tail = IF hasRoom(ring.count, ring.size)
                                    THEN @ ELSE (@ + 1) % ring.size]
  /\ pushed' = Append(pushed, item)
  /\ UNCHANGED <<connVars, facadeVars, apiVars, parseVars, obsVars, toolVars>>

\* clear()
clearBuffer ==
  /\ ring.size > 0
  /\ ring' = [ring EXCEPT !.head = 0, !.tail = 0, !.count = 0]
  /\ pushed' = <<>>
  /\ UNCHANGED <<connVars, facadeVars, apiVars, parseVars, obsVars, toolVars>>

\* getAll()
getAll == [i \in 1..ring.count |-> ring.buffer[(ring.tail + i - 1) % ring.size]]

\* getLast(); "undefined" for an empty buffer
getLast ==
  IF ring.count = 0 THEN "undefined"
  ELSE ring.buffer[(ring.head - 1 + ring.size) % ring.size]

\* the getter length
length == ring.count

\* createCircularBuffer(size): new Array(size), of which no slot is set
InitBuffer ==
  /\ Created /\ listeners = "on"
  /\ \E size \in 1..MaxSize :
       ring = [size |-> size, buffer |-> [i \in 0..(size - 1) |-> "undefined"],
               head |-> 0, tail |-> 0, count |-> 0]
  /\ pushed = <<>>
  /\ NewFacade
  /\ NoRequests
  /\ NoAddress
  /\ NoObservable
  /\ NoTools

NextBuffer ==
  \/ \E item \in Items : push(item)
  \/ clearBuffer

SpecBuffer == InitBuffer /\ [][NextBuffer]_vars

\* --------------------------------------------------------------- Subject
\* the subscriptions whose safeObserver is in _observers and not closed
listening(sj) == {w \in sj.observers : sj.subs[w] = "open"}

\* subject.subscribe(observer), the call numbered w: the subscriber function
\* of the Subject adds the safeObserver to _observers, whether or not the
\* Subject is closed, and returns the cleanup that deletes it
SubjectSubscribe(w) ==
  /\ subject.subs[w] = "none"
  /\ \A v \in Watchers : v < w => subject.subs[v] # "none"
  /\ subject' = [subject EXCEPT !.observers = @ \cup {w}, !.subs[w] = "open"]
  /\ UNCHANGED <<connVars, facadeVars, ringVars, apiVars, parseVars, obsVars,
                 discovery, retrying>>

\* unsubscribe() of the subscription w: closed is set and the cleanup
\* deletes the safeObserver, unless the subscription is closed already
SubjectUnsubscribe(w) ==
  /\ subject.subs[w] = "open"
  /\ subject' = [subject EXCEPT !.observers = @ \ {w}, !.subs[w] = "closed"]
  /\ UNCHANGED <<connVars, facadeVars, ringVars, apiVars, parseVars, obsVars,
                 discovery, retrying>>

\* subject.next(value); throwing: the subscriptions whose observer's next
\* callback throws, which safeObserver.next turns into safeObserver.error:
\* the subscription is closed and its cleanup deletes it from _observers
SubjectNext(throwing) ==
  /\ \A w \in Watchers : subject.got[w] < MaxValues
  /\ LET told == IF subject.closed THEN {} ELSE listening(subject)
     IN subject' =
          [subject EXCEPT
             !.got = [w \in Watchers |-> IF w \in told THEN @[w] + 1 ELSE @[w]],
             !.subs = [w \in Watchers |->
                         IF w \in told \cap throwing THEN "closed" ELSE @[w]],
             !.observers = @ \ (told \cap throwing),
             !.late = @ \/ (subject.closed /\ told # {})]
  /\ UNCHANGED <<connVars, facadeVars, ringVars, apiVars, parseVars, obsVars,
                 discovery, retrying>>

\* subject.error(err) and subject.complete(): unless closed already, the
\* Subject is closed, every observer is told (its safeObserver closes and
\* runs its cleanup) and _observers is cleared
SubjectEnd(note) ==
  /\ note \in {"error", "complete"}
  /\ ~subject.closed
  /\ subject' = [subject EXCEPT
                   !.closed = TRUE,
                   !.subs = [w \in Watchers |->
                               IF w \in listening(subject) THEN "closed" ELSE @[w]],
                   !.observers = {}]
  /\ UNCHANGED <<connVars, facadeVars, ringVars, apiVars, parseVars, obsVars,
                 discovery, retrying>>

\* the getter observerCount
observerCount == Cardinality(subject.observers)

InitSubject ==
  /\ Created /\ listeners = "on"
  /\ NoRing /\ NewFacade /\ NoRequests /\ NoAddress /\ NoObservable
  /\ subject = NewSubject
  /\ NoDiscovery /\ NoRetry

NextSubject ==
  \/ \E w \in Watchers : SubjectSubscribe(w)
  \/ \E w \in Watchers : SubjectUnsubscribe(w)
  \/ \E throwing \in SUBSET Watchers : SubjectNext(throwing)
  \/ \E note \in {"error", "complete"} : SubjectEnd(note)

SpecSubject == InitSubject /\ [][NextSubject]_vars

\* ------------------------------------------------------------- discovery
DEFAULTS == [PORT |-> 8080]

\* the services that answer the browser's query: a Neon with every record,
\* a Neon whose TXT record has no id, an Invisible without TXT record,
\* address list and port, and a service that is no eye tracker; txt as its
\* key/value pairs, port 0 for no port
neonService ==
  [name |-> "Neon monitor:a", txt |-> {<<"id", "dev1">>, <<"fw", "2">>},
   addresses |-> <<"10.0.0.1", "fe80::1">>, host |-> "neon.local", port |-> 8081]

plainNeonService ==
  [name |-> "Neon monitor:c", txt |-> {<<"fw", "1">>}, addresses |-> <<"10.0.0.3">>,
   host |-> "neon-c.local", port |-> 8080]

piService ==
  [name |-> "PI monitor:b", txt |-> {}, addresses |-> <<>>, host |-> "pi.local",
   port |-> 0]

printerService ==
  [name |-> "Printer", txt |-> {<<"id", "p1">>}, addresses |-> <<"10.0.0.9">>,
   host |-> "printer.local", port |-> 631]

Services == {neonService, plainNeonService, piService, printerService}

\* String.prototype.includes, for the names above
includes(name, word) ==
  word \in (CASE name \in {"Neon monitor:a", "Neon monitor:c"} -> {"Neon", "monitor"}
             [] name = "PI monitor:b" -> {"PI", "monitor"}
             [] OTHER -> {})

\* service.txt?.id || service.name
txtIdOrName(service) ==
  IF \E kv \in service.txt : kv[1] = "id"
  THEN (CHOOSE kv \in service.txt : kv[1] = "id")[2]
  ELSE service.name

\* deviceFromService(service), without the lastSeen time stamp
deviceFromService(service) ==
  [id |-> txtIdOrName(service),
   name |-> service.name,
   model |-> IF includes(service.name, "Neon") THEN "Neon" ELSE "Invisible",
   ipAddress |-> IF service.addresses # <<>> THEN service.addresses[1]
                 ELSE service.host,
   port |-> IF service.port # 0 THEN service.port ELSE DEFAULTS.PORT,
   txtRecord |-> service.txt]

\* the filter of the 'up' handler
isEyeTracker(service) ==
  /\ includes(service.name, "monitor")
  /\ includes(service.name, "Neon") \/ includes(service.name, "PI")

\* (variant: the 'down' handler looks the device up by the service name)
deviceId_NameOnly(service) == service.name

\* the deviceId of the 'down' handler
deviceId(service) == txtIdOrName(service)

\* Map.prototype.has, set and delete on discoveredDevices
has(devices, id) == \E d \in devices : d.id = id

set(devices, id, device) == {d \in devices : d.id # id} \cup {device}

delete(devices, id) == {d \in devices : d.id # id}

\* emitter.emit(type, ...) with or without a listener registered
emit(type, id, device) ==
  [type |-> type, id |-> id, device |-> device, heard |-> discovery.handlers]

\* the application registers its listeners with on()
on ==
  /\ ~discovery.handlers
  /\ discovery' = [discovery EXCEPT !.handlers = TRUE, !.emitted = Silent]
  /\ UNCHANGED <<connVars, facadeVars, ringVars, apiVars, parseVars, obsVars,
                 subject, retrying>>

\* start(): a new browser, which has seen no service yet
start ==
  /\ discovery' = IF discovery.isDiscovering
                  THEN [discovery EXCEPT !.emitted = Silent]
                  ELSE [discovery EXCEPT !.isDiscovering = TRUE,
                                         !.discoveredDevices = {},
                                         !.browser = TRUE, !.up = {},
                                         !.emitted = Silent]
  /\ UNCHANGED <<connVars, facadeVars, ringVars, apiVars, parseVars, obsVars,
                 subject, retrying>>

\* stop(): the browser is stopped and every listener removed
stop ==
  /\ discovery' = IF ~discovery.isDiscovering
                  THEN [discovery EXCEPT !.emitted = Silent]
                  ELSE [discovery EXCEPT !.isDiscovering = FALSE,
                                         !.browser = FALSE, !.handlers = FALSE,
                                         !.emitted = Silent]
  /\ UNCHANGED <<connVars, facadeVars, ringVars, apiVars, parseVars, obsVars,
                 subject, retrying>>

\* the 'up' event of the browser for a service it has not seen up
serviceUp(service) ==
  /\ discovery.browser /\ service \notin discovery.up
  /\ discovery' =
       IF isEyeTracker(service)
       THEN LET device == deviceFromService(service)
            IN [discovery EXCEPT
                  !.up = @ \cup {service},
                  !.discoveredDevices = set(@, device.id, device),
                  !.emitted = emit("device", device.id, {device})]
       ELSE [discovery EXCEPT !.up = @ \cup {service}, !.emitted = Silent]
  /\ UNCHANGED <<connVars, facadeVars, ringVars, apiVars, parseVars, obsVars,
                 subject, retrying>>

\* the 'down' event of the browser for a service it has seen up
serviceDown(service) ==
  /\ discovery.browser /\ service \in discovery.up
  /\ discovery' =
       IF has(discovery.discoveredDevices, deviceId(service))
       THEN [discovery EXCEPT
               !.up = @ \ {service},
               !.discoveredDevices = delete(@, deviceId(service)),
               !.emitted = emit("deviceLost", deviceId(service), {})]
       ELSE [discovery EXCEPT !.up = @ \ {service}, !.emitted = Silent]
  /\ UNCHANGED <<connVars, facadeVars, ringVars, apiVars, parseVars, obsVars,
                 subject, retrying>>

\* getDevices(), as a set
getDevices == discovery.discoveredDevices

InitDiscovery ==
  /\ Created /\ listeners = "on"
  /\ NoRing /\ NewFacade /\ NoRequests /\ NoAddress /\ NoObservable
  /\ NoSubject
  /\ discovery = NewDiscovery
  /\ NoRetry

NextDiscovery ==
  \/ on
  \/ start
  \/ stop
  \/ \E service \in Services : serviceUp(service)
  \/ \E service \in Services : serviceDown(service)

SpecDiscovery == InitDiscovery /\ [][NextDiscovery]_vars

\* ----------------------------------------------------------------- retry
\* the options the application passes to retry()
Options ==
  [maxAttempts : 0..MaxAttempts, initialDelay : 1..MaxDelayMs,
   maxDelay : 1..MaxDelayMs, factor : 1..MaxFactor]

\* Math.min(delay * factor, maxDelay)
nextDelay(delay, options) == Min(delay * options.factor, options.maxDelay)

\* retry(fn, options) up to the first await: the loop is entered with
\* attempt 1 and delay initialDelay; if maxAttempts is below 1 the loop is
\* skipped and lastError, which is undefined (0), is thrown.  calls counts
\* the calls of fn, whose k-th call returns the value k or throws the error
\* k; slept lists the delays passed to sleep()
retry ==
  /\ retrying.pc = "start"
  /\ retrying' =
       [retrying EXCEPT
          !.pc = IF 1 <= retrying.options.maxAttempts THEN "call" ELSE "rejected",
          !.attempt = 1,
          !.delay = retrying.options.initialDelay]
  /\ UNCHANGED <<connVars, facadeVars, ringVars, apiVars, parseVars, obsVars,
                 subject, discovery>>

\* await fn() resolves: retry() returns the value
fnResolved ==
  /\ retrying.pc = "call"
  /\ retrying' = [retrying EXCEPT !.pc = "resolved", !.calls = @ + 1,
                                    !.value = retrying.calls + 1]
  /\ UNCHANGED <<connVars, facadeVars, ringVars, apiVars, parseVars, obsVars,
                 subject, discovery>>

\* await fn() rejects: the catch block, which throws on the last attempt
\* and otherwise calls sleep(delay)
fnRejected ==
  /\ retrying.pc = "call"
  /\ retrying' =
       IF retrying.attempt = retrying.options.maxAttempts
       THEN [retrying EXCEPT !.pc = "rejected", !.calls = @ + 1,
                             !.lastError = retrying.calls + 1,
                             !.error = retrying.calls + 1]
       ELSE [retrying EXCEPT !.pc = "sleep", !.calls = @ + 1,
                             !.lastError = retrying.calls + 1,
                             !.slept = Append(@, retrying.delay)]
  /\ UNCHANGED <<connVars, facadeVars, ringVars, apiVars, parseVars, obsVars,
                 subject, discovery>>

\* await sleep(delay) resolves: the next delay is computed and the loop
\* goes on with the next attempt
slept ==
  /\ retrying.pc = "sleep"
  /\ retrying' = [retrying EXCEPT
                    !.pc = IF retrying.attempt + 1 <= retrying.options.maxAttempts
                           THEN "call" ELSE "rejected",
                    !.attempt = @ + 1,
                    !.delay = nextDelay(@, retrying.options),
                    !.error = IF retrying.attempt + 1 <= retrying.options.maxAttempts
                              THEN @ ELSE retrying.lastError]
  /\ UNCHANGED <<connVars, facadeVars, ringVars, apiVars, parseVars, obsVars,
                 subject, discovery>>

\* the application is about to call retry() with some options
InitRetry ==
  /\ Created /\ listeners = "on"
  /\ NoRing /\ NewFacade /\ NoRequests /\ NoAddress /\ NoObservable
  /\ NoSubject /\ NoDiscovery
  /\ \E options \in Options :
       retrying = [pc |-> "start", options |-> options, attempt |-> 0, delay |-> 0,
                   calls |-> 0, slept |-> <<>>, lastError |-> 0, value |-> 0,
                   error |-> 0]

NextRetry ==
  \/ retry
  \/ fnResolved
  \/ fnRejected
  \/ slept

SpecRetry == InitRetry /\ [][NextRetry]_vars

\* ------------------------------------------------------------- claims
Emitted(e) == e \in Range(last.events)

Attached(s) == sub[s].used /\ ~sub[s].closed

\* the gaze WebSockets that exist (created, not yet closing) for stream key k
GazeChannels(k) == {s \in Subs : sub[s].key = k /\ sub[s].ws \in {"connecting", "open"}}

\* C1: while the Connection is Connected, at no time do two gaze channels
\* exist for the same stream key, however many subscribers the stream has.
C1_OneChannelPerKey ==
  connectionState = "connected" =>
    \A k \in StreamKeys : Cardinality(GazeChannels(k)) <= 1

\* C2: an unsubscribe() that leaves another subscriber of the same stream
\* key attached closes no channel, and no unsubscribe() closes more than one.
C2_SharedChannelSurvives ==
  last.op = "unsubscribe" =>
    /\ Cardinality(last.closed) <= 1
    /\ (\E r \in Subs : r # last.who /\ Attached(r) /\ sub[r].key = sub[last.who].key)
         => last.closed = {}

\* C3: as long as a subscriber of a key is attached, the registry entry of
\* the key is the Observable it subscribed to, which is what
\* createGazeStream returns for an equal configuration.
C3_OneLiveHandle ==
  \A s \in Subs : Attached(s) => streams[sub[s].key] = sub[s].obs

\* C4: after a disconnect() that found a reconnect wait pending (and no
\* connect() in flight), and until the application calls connect() again,
\* the state stays Disconnected and no "connecting", "reconnecting" or
\* "connected" event is emitted.
C4_DisconnectCancelsWait ==
  cut = "wait" =>
    /\ connectionState = "disconnected"
    /\ ~Emitted("connecting") /\ ~Emitted("reconnecting") /\ ~Emitted("connected")

\* C5: when a connect() that was in flight at a disconnect() succeeds, and
\* the application has not called connect() again, the state stays
\* Disconnected and no "connected" event is emitted.
C5_LateSuccessIsNoop ==
  (cut = "connect" /\ last.op = "statusOpened") =>
    /\ connectionState = "disconnected"
    /\ ~Emitted("connected")

\* C6: the reconnect episode a status-channel close starts while Connected
\* makes at most maxReconnectAttempts connect attempts and emits at most one
\* maximum-attempts error; when it has ended without a successful connect the
\* state is Error and exactly one such error has been emitted.
C6_BoundedReconnect ==
  episode.active =>
    /\ episode.attempts <= maxReconnectAttempts
    /\ episode.terminals <= 1
    /\ AllIdle => (connectionState = "error" /\ episode.terminals = 1)

\* C7: once the maximum-attempts error has been emitted, and until the
\* application calls connect() or disconnect(), the state is Error and no
\* "reconnecting" or "connecting" event is emitted.
C7_CeilingIsTerminal ==
  episode.terminals >= 1 =>
    /\ connectionState = "error"
    /\ ~Emitted("reconnecting") /\ ~Emitted("connecting")

\* the edges C8 lists
Edge(a, b, op) ==
  \/ <<a, b>> \in {<<"disconnected", "connecting">>, <<"connecting", "connected">>,
                   <<"connecting", "error">>, <<"connected", "reconnecting">>,
                   <<"reconnecting", "connected">>, <<"reconnecting", "error">>}
  \/ a = "error" /\ b = "connecting" /\ op = "connect"
  \/ b = "disconnected" /\ op = "disconnect"

\* C8: every change of state.connectionState follows one of the listed edges.
C8_OnlyListedEdges ==
  \A i \in 1..(Len(last.states) - 1) :
    last.states[i] # last.states[i + 1]
      => Edge(last.states[i], last.states[i + 1], last.op)

\* C9: at most one connect() handshake or reconnect wait of the Connection
\* is in flight at any time.
C9_OneTransitionInFlight == Cardinality({t \in Tasks : Pending(t)}) <= 1

\* C10: a connect() called while the state is Connected changes nothing of
\* the Connection (state, counter, registries, channels, invocations) and
\* emits no event.
C10_ConnectWhenConnectedIsNoop ==
  [][(connectionState = "connected" /\ last'.op = "connect")
       => /\ UNCHANGED <<connectionState, reconnectAttempts, websockets, streams,
                         chan, task, sub>>
          /\ last'.events = <<>>]_vars

C10_Witness ==
  /\ last.op = "connect"
  /\ last.states = <<"connected">>
  /\ connectionState = "connected"

\* what the last step handed to subscription s
Told(kind, s) == <<kind, s>> \in last.told

\* C11: when disconnect() has run, no WebSocket of the Connection is open:
\* neither a status channel nor the gaze channel of any subscription.
C11_DisconnectClosesAll ==
  last.op = "disconnect" =>
    /\ \A c \in Chans : chan[c].rs # "open"
    /\ \A s \in Subs : sub[s].ws # "open"

\* C12: when disconnect() has run, no gaze subscriber is left attached (each
\* was told its completion) and the step handed an error to none of them.
C12_DisconnectCompletesSubscribers ==
  last.op = "disconnect" =>
    /\ \A s \in Subs : ~Attached(s)
    /\ \A s \in Subs : ~Told("error", s)

\* C13: disconnect() can run in every state; when it has run the state is
\* Disconnected and both registries are empty, and a disconnect() that
\* follows a disconnect() changes nothing of the Connection.
C13_DisconnectIdempotent ==
  [][/\ ENABLED Disconnect
     /\ last'.op = "disconnect" =>
          /\ connectionState' = "disconnected"
          /\ websockets' = 0
          /\ \A k \in StreamKeys : streams'[k] = 0
          /\ last.op = "disconnect" =>
               UNCHANGED <<connectionState, deviceInfo, reconnectAttempts,
                           websockets, streams, chan, task, sub, held>>]_vars

\* disconnect() has run during a reconnect wait, after a stream was created
C13_Witness ==
  /\ last.op = "disconnect"
  /\ last.states = <<"reconnecting", "disconnected">>
  /\ \E cfg \in Configs : held[cfg] # 0

\* C14: the 'close' event of a status WebSocket that disconnect() closed
\* starts no reconnect: the step emits no "reconnecting" event and starts no
\* reconnect wait.
C14_DisconnectCloseStartsNothing ==
  [][\A c \in Chans :
       (/\ chan[c].kind = "status" /\ chan[c].rs = "closing"
        /\ chan'[c].rs # "closing" /\ last'.op = "statusClosed")
         => /\ "reconnecting" \notin Range(last'.events)
            /\ UNCHANGED <<connectionState, reconnectAttempts, task>>]_vars

\* the steps in which the handshake of a connect() fails
FailedConnect(l) == l.op \in {"statusRequestFailed", "statusOpenFailed"}

C16_CloseWithoutAutoReconnect ==
  [][(~autoReconnect /\ connectionState = "connected" /\ last'.op = "statusClosed")
       => /\ UNCHANGED <<connectionState, reconnectAttempts, task>>
          /\ last'.events = <<>>]_vars

C16_Witness ==
  /\ ~autoReconnect
  /\ last.op = "statusClosed"
  /\ last.states = <<"connected">>
  /\ connectionState = "connected"

\* C17: a subscribe() made while the state is not Connected hands the
\* subscriber an error in the same step and creates no WebSocket and no
\* subscription.
C17_SubscribeWhenNotConnected ==
  [][(connectionState # "connected" /\ last'.op \in {"subscribe", "subscribeRefused"})
       => /\ last'.told = {<<"error", 0>>}
          /\ last'.closed = {}
          /\ UNCHANGED <<sub, chan, websockets>>]_vars

C17_Witness ==
  /\ last.op = "subscribeRefused"
  /\ Told("error", 0)
  /\ connectionState = "reconnecting"

\* C18: when the gaze WebSocket of an attached subscriber closes or errors,
\* every attached subscriber of the same stream key is handed an error in
\* that step, no subscriber that had already ended is handed one again, and
\* the registry entry of the key is removed.
C18_ChannelLossReachesAll ==
  [][(last'.op \in {"gazeClosed", "gazeError"} /\ Attached(last'.who))
       => LET k == sub[last'.who].key
          IN /\ \A s \in Subs :
                  (Attached(s) /\ sub[s].key = k) <=> <<"error", s>> \in last'.told
             /\ streams'[k] = 0]_vars

\* C19: a gaze frame that fails to decode hands an error to the subscriber
\* it was meant for (if it is still attached) and to no one else; the
\* connection state, the attempt
\* counter, the status channel, the device descriptor, the invocations in
\* flight and every other subscription are unchanged, and no lifecycle event
\* is emitted.
C19_DecodeFailureIsLocal ==
  [][last'.op = "gazeDecodeFailed"
       => /\ last'.told \subseteq {<<"error", last'.who>>}
          /\ Attached(last'.who) => <<"error", last'.who>> \in last'.told
          /\ last'.events = <<>>
          /\ UNCHANGED <<connectionState, deviceInfo, reconnectAttempts, websockets,
                         chan, task>>
          /\ \A s \in Subs \ {last'.who} : sub'[s] = sub[s]]_vars

C19_Witness ==
  /\ last.op = "gazeDecodeFailed"
  /\ Told("error", last.who)
  /\ connectionState = "connected"
  /\ \E s \in Subs \ {last.who} : Attached(s)

C21_StatusUpdateEvent ==
  (last.op = "statusMessage" /\ connectionState = "connected") =>
    /\ [i \in DOMAIN last.events |-> eventName(last.events[i])] = <<"status-update">>
    /\ deviceInfo \in Statuses

\* C22: a step that finds the reconnect ceiling reached leaves the
\* Connection in Error and delivers the failure as an "error" event;
\* whatever listeners the application has registered, nothing is thrown out
\* of that step.
C22_CeilingErrorIsContained ==
  Emitted("error_max") =>
    /\ connectionState = "error"
    /\ ~Told("unhandled", "handleReconnect")

\* the last n elements of the sequence q
LastOf(q, n) == SubSeq(q, Len(q) - Min(n, Len(q)) + 1, Len(q))

\* C23: through every sequence of push and clear the length of a circular
\* buffer of capacity N never exceeds N, and reading the whole buffer
\* returns, in insertion order, the last N items pushed since it was
\* created or cleared (all of them while fewer than N were pushed).
C23_RingKeepsLastN ==
  ring.size > 0 =>
    /\ length <= ring.size
    /\ length = Min(Len(pushed), ring.size)
    /\ getAll = LastOf(pushed, ring.size)
    /\ getLast = IF pushed = <<>> THEN "undefined" ELSE pushed[Len(pushed)]

\* N + 2 pushes without a clear have wrapped a buffer of capacity N = 3
C23_Witness ==
  /\ ring.size = 3 /\ length = 3
  /\ pushed = <<"a", "a", "b", "a", "b">>
  /\ getAll = <<"b", "a", "b">>

\* C24: the gaze buffer of the facade never holds more samples than its
\* capacity, and a sample that arrives is kept as the newest element: what
\* overflows is the oldest unread sample.
C24_FacadeBufferBounded ==
  /\ [](Len(gazeBuffer) <= GazeBufferLimit)
  /\ [][arrived' # arrived =>
          gazeBuffer' = LastOf(Append(gazeBuffer, arrived'), GazeBufferLimit)]_vars

\* a third sample arrived while two were unread: the first was evicted
C24_Witness ==
  /\ last.op = "gazeData"
  /\ arrived = GazeBufferLimit + 1 /\ returned = <<>>
  /\ gazeBuffer = <<2, 3>>

\* C25: a receiveGazeDatum() that finds the buffer non-empty resolves with
\* the oldest buffered sample and removes exactly that one; the samples the
\* calls resolve with come in arrival order, each at most once.
C25_OldestFirst ==
  /\ [][(last'.op = "receiveGazeDatum" /\ gazeBuffer # <<>>) =>
          /\ last'.told = {<<"gaze", Head(gazeBuffer)>>}
          /\ gazeBuffer' = Tail(gazeBuffer)]_vars
  /\ [](\A i, j \in DOMAIN returned : i < j => returned[i] < returned[j])

\* two calls found samples waiting and took 1 and then 2, leaving 3
C25_Witness ==
  /\ last.op = "receiveGazeDatum" /\ Told("gaze", 2)
  /\ returned = <<1, 2>>
  /\ gazeBuffer = <<3>>

C27_CloseReleasesAll ==
  last.op = "close" =>
    /\ ~gazeSubscription.has /\ ~isStreaming
    /\ \A s \in Subs : ~Attached(s)
    /\ gazeBuffer = <<>>
    /\ connectionState = "disconnected"

\* close() ran while the subscription was live, its channel open and
\* samples were waiting unread
C27_Witness ==
  /\ last.op = "close" /\ \E s \in Subs : <<"gaze", s>> \in last.closed
  /\ arrived = 2 /\ returned = <<>>
  /\ \A c \in Calls : calls[c].state = "free"

Numeric(str) == str # <<>> /\ \A i \in DOMAIN str : str[i] \in DOMAIN Digit

\* a host name: not empty, without separator or blank
HostName(str) == str # <<>> /\ \A i \in DOMAIN str : str[i] \notin {":", " "}

\* C29: parseAddress returns the host and the given port for every valid
\* "host:port" string and the host and the default port 8080 for every
\* valid "host" string, and it fails for every string whose port segment is
\* not numeric or is outside 1..65535.
C29_ParseAddress ==
  parsed.done =>
    LET parts == split(address)
    IN /\ (Len(parts) = 1 /\ HostName(parts[1])) =>
            parsed = [done |-> TRUE, threw |-> "", host |-> parts[1], port |-> 8080]
       /\ (Len(parts) = 2 /\ HostName(parts[1]) /\ Numeric(parts[2])
             /\ valueOf(parts[2]) \in 1..65535) =>
            parsed = [done |-> TRUE, threw |-> "", host |-> parts[1],
                      port |-> valueOf(parts[2])]
       /\ (Len(parts) = 2
             /\ (~Numeric(parts[2]) \/ valueOf(parts[2]) \notin 1..65535)) =>
            parsed.threw # ""

\* C30: once unsubscribe() has been called the observer is handed no
\* further next, error or complete, and the cleanup function the subscriber
\* function returned has run exactly once, however often unsubscribe() was
\* called.
C30_UnsubscribeOnce ==
  subscription.unsubs > 0 =>
    /\ ~subscription.late
    /\ (script.returns /\ ~script.throws) => subscription.ran = 1

\* C31: whatever the order of subscribe, unsubscribe, next, error and
\* complete, observerCount is the number of subscriptions made and not ended,
\* it is 0 once the Subject has completed or errored, and a closed Subject
\* hands no value to any observer.
C31_SubjectObserverCount ==
  /\ observerCount = Cardinality({w \in Watchers : subject.subs[w] = "open"})
  /\ subject.closed => observerCount = 0
  /\ ~subject.late

\* the responders: the services of the two supported device families
Responders == {neonService, plainNeonService, piService}

C33_AttemptCounterInRange ==
  /\ reconnectAttempts \in 0..maxReconnectAttempts
  /\ connectionState = "connected" => reconnectAttempts = 0

\* a connect() has just succeeded while the reconnect wait that a failed
\* connect() started, counting an attempt, is still pending
C33_Witness ==
  /\ last.op = "statusOpened" /\ connectionState = "connected"
  /\ reconnectAttempts = 0
  /\ \E t \in Tasks : task[t].pc = "wait"

\* the status WebSockets of the Connection that are open
OpenStatus == {c \in Chans : chan[c].kind = "status" /\ chan[c].rs = "open"}

\* C34: at any time at most one status channel opened by the Connection is
\* open, and an open one is the channel registered as the Connection's
\* status channel, whatever the interleaving of connect(), disconnect(),
\* reconnect attempts and channel-open completions.
C34_OneOpenStatusChannel ==
  /\ Cardinality(OpenStatus) <= 1
  /\ \A c \in OpenStatus : websockets = c

\* C35: the 'close' event of a status WebSocket that is not, or no longer,
\* the one registered as the Connection's status channel starts no
\* reconnect: the step changes neither state nor attempt counter, starts no
\* reconnect wait and emits neither "reconnecting" nor the maximum-attempts
\* error.
C35_StaleCloseStartsNothing ==
  [][\A c \in Chans :
       (/\ last'.op = "statusClosed"
        /\ chan[c].kind = "status" /\ chan[c].rs \in {"open", "closing"}
        /\ chan'[c].rs = "closed"
        /\ websockets # c)
         => /\ last'.events = <<>>
            /\ UNCHANGED <<connectionState, reconnectAttempts, task>>]_vars

\* C36: whenever a gaze WebSocket is open, the subscriber it was opened for
\* is still subscribed; one whose subscriber left while it was being opened
\* is closed as soon as it opens.
C36_NoOrphanGazeChannel ==
  \A s \in Subs : sub[s].ws = "open" => Attached(s)

\* C37: once a receiveGazeDatum() call has settled, resolved or rejected,
\* its poll loop has stopped (no further checkBuffer is scheduled), and
\* every sample that a call or its poll loop removes from the buffer is
\* handed to the caller, whose promise was still pending.
C37_PollStopsWhenSettled ==
  /\ [](\A c \in Calls : calls[c].state = "settled" => calls[c].poll = "none")
  /\ [][(last'.op \in {"receiveGazeDatum", "checkBuffer"}
          /\ Len(gazeBuffer') < Len(gazeBuffer))
         => last'.told = {<<"gaze", Head(gazeBuffer)>>}]_vars

\* the WebSocket registered under 'status' is open
LiveStatusChannel == websockets # 0 /\ chan[websockets].rs = "open"

\* C38 (as stated): whenever the state is Connected the registered status
\* channel is open.
C38_ConnectedHasLiveChannel ==
  connectionState = "connected" => LiveStatusChannel

\* C38 (amended): whenever the state of a Connection created with
\* auto-reconnect enabled is Connected, the registered status channel is
\* open.
C38_ConnectedHasLiveChannelIfAuto ==
  (autoReconnect /\ connectionState = "connected") => LiveStatusChannel

\* the registered status channel of a Connection with auto-reconnect has
\* just closed while Connected: the state has moved on to Reconnecting
C38_Witness ==
  /\ autoReconnect
  /\ last.op = "statusClosed" /\ last.states = <<"connected", "reconnecting">>
  /\ websockets # 0 /\ chan[websockets].rs = "closed"

\* C39: the facade's isStreaming flag is true only while its gaze
\* subscription is live; once the gaze stream has ended with an error the
\* flag is false, so that the next receiveGazeDatum() subscribes again.
C39_StreamingFlagIsLive ==
  isStreaming =>
    /\ gazeSubscription.has /\ gazeSubscription.slot # 0
    /\ Attached(gazeSubscription.slot)

\* C40: retry(fn, options) calls fn at most maxAttempts times; it returns
\* the result of the first call that succeeds, every call before it having
\* failed; it rejects after maxAttempts failures, with the error of the
\* last; the waits between attempts start at initialDelay, each is the
\* one before multiplied by factor or maxDelay if that is less, and none
\* exceeds maxDelay.
C40_RetryBackoff ==
  LET o == retrying.options
      w == retrying.slept
  IN retrying.pc \notin {"idle", "start"} =>
       /\ retrying.calls <= o.maxAttempts
       /\ retrying.pc = "resolved" =>
            retrying.value = retrying.calls /\ retrying.lastError = retrying.calls - 1
       /\ retrying.pc = "rejected" =>
            retrying.calls = o.maxAttempts /\ retrying.error = retrying.calls
       /\ w # <<>> => w[1] = o.initialDelay
       /\ \A i \in 1..(Len(w) - 1) : w[i + 1] = Min(w[i] * o.factor, o.maxDelay)
       /\ \A i \in DOMAIN w : w[i] <= o.maxDelay

====
